---- MODULE Spec2Model ----
(***************************************************************************)
(* A model of the two core subsystems of the repository:                   *)
(*   - the ingestion durability layer: store_to_db.py (initial run) and    *)
(*     import_fallback.py (reconciliation run) over the primary store, the *)
(*     local store, db_fallback.jsonl and db_fallback.imported.jsonl;      *)
(*   - the breadth-first crawler of scraper_crawl.py.                      *)
(* Runs of the scripts are sequential processes; each run is a small       *)
(* state machine whose position is held in pc (ingestion) or cpc (crawl).  *)
(***************************************************************************)
EXTENDS Integers, Sequences, FiniteSets, TLC

VARIABLES
    \* ---- ingestion durability layer
    inputs,     \* the CSV contents (output_with_summaries.csv) a run may find on disk
    reach,      \* reachability of each store tier: "down", "flaky" or "up"
    primary,    \* documents of scrape_db.history_pages in the store of MONGO_URI
    local,      \* documents of scrape_db.history_pages in mongodb://localhost:27017
    log,        \* db_fallback.jsonl: NoFile or its lines
    imported,   \* db_fallback.imported.jsonl: NoFile or its lines
    pc,         \* position of the running script, "idle" between runs
    rows,       \* the records the running script loaded
    uri,        \* whether MONGO_URI is configured for the running script
    acked,      \* store_to_db: number of update_one calls that returned (count)
    applied,    \* import_fallback: per tier, records upserted by batches that returned
    sent,       \* import_fallback: per tier, the bulk writes try_import issued
    tried,      \* the tiers the running script has attempted (probe issued)
    pre,        \* the files and stores as they were when the running script started
    outcome,    \* how the running script ended, "none" while it runs
    \* ---- crawler (scraper_crawl.main)
    startUrl,       \* START_URL
    conf,           \* MAX_RECORDS and MAX_PAGES_TO_VISIT as read from the environment
    found,          \* OUTPUT_CSV as the run found it at its start
    web,            \* the site: any pages (any |-> TRUE) or a fixed, reliable link graph
    q,              \* the frontier, a FIFO queue of URLs
    visited,        \* VisitedSet
    articles,       \* ArticleSet
    pages_visited,  \* the visitation counter
    scraped_rows,   \* the Sink buffer
    outCsv,         \* OUTPUT_CSV: NoFile or its rows (the url of each row)
    cpc,            \* position of the crawl run
    cur,            \* the URL being visited
    html,           \* the page content of the URL being visited
    gets,           \* the URLs requests_get was called with, in order
    sels,           \* the URLs fetch_with_selenium was called with, in order
    answer,         \* what requests.get met for the URL being visited
    sessions,       \* the browser sessions that are open
    pause,          \* whether time.sleep(DELAY) ran since the last fetch
    \* ---- summarizer (summarizer.main, call_openai)
    sconf,          \* MAX_RETRIES and INITIAL_BACKOFF as read from the environment
    total,          \* the rows of the input CSV (none has a summary yet)
    summaries,      \* ai_summary of the rows handled so far: the values call_openai returned
    spc,            \* position of the summarizer run
    attempt,        \* the loop variable of call_openai
    calls,          \* the API attempts of the last call of call_openai
    waits           \* the waits of the last call of call_openai, in order

ingestVars == <<inputs, reach, primary, local, log, imported, pc, rows, uri,
                acked, applied, sent, tried, pre, outcome>>

crawlVars == <<startUrl, conf, web, found, q, visited, articles, pages_visited, scraped_rows,
               outCsv, cpc, cur, html, gets, sels, answer, sessions, pause>>

sumVars == <<sconf, total, summaries, spc, attempt, calls, waits>>

vars == <<ingestVars, crawlVars, sumVars>>

\* ------------------------------------------------------------------------
\* Records (rows of the CSV, lines of the log, documents of the store)
\* ------------------------------------------------------------------------

\* A file of the working directory: absent, or its lines
NoFile == [exists |-> FALSE, lines |-> <<>>]

File(lines) == [exists |-> TRUE, lines |-> lines]

\* A value holding U+2028: json.dumps(..., ensure_ascii=False) writes it raw and
\* str.splitlines() splits a line at it.
LineSepValue == "vLS"

RecA  == [url |-> "u1", title |-> "t1", body |-> "v1"]
RecA2 == [url |-> "u1", title |-> "t1", body |-> "v2"]
RecB  == [url |-> "u2", title |-> "t2", body |-> "v1"]
RecC  == [url |-> "u2", title |-> "t2x"]
RecN  == [url |-> "",   title |-> "t3", body |-> "v1"]
RecM  == [url |-> "",   title |-> "t4", body |-> "v1"]
RecL  == [url |-> "u3", title |-> "t5", body |-> LineSepValue]

\* The CSV contents an initial run may load; <<>> is a missing or empty CSV.
CsvUniverse ==
    { <<>>, <<RecA, RecB>>, <<RecA2>>, <<RecA, RecA2, RecB>>, <<RecL>> }

Tiers == {"primary", "local"}

Min(a, b) == IF a <= b THEN a ELSE b

\* import_fallback.py line 34 (DB_BATCH_SIZE, default 200; 2 here)
BATCH_SIZE == 2

\* ------------------------------------------------------------------------
\* The log file: json.dumps per row, read_text().splitlines(), json.loads
\* ------------------------------------------------------------------------

HasLineSep(r) == \E f \in DOMAIN r : r[f] = LineSepValue

\* json.dumps(r, ensure_ascii=False) + "\n": one physical line per row
Dumps(r) == [json |-> r]

\* variant of save_fallback: the last row is not written
save_fallback_short(rs) == File([i \in 1..(Len(rs) - 1) |-> Dumps(rs[i])])

\* save_fallback: the file is opened with mode "w" and gets one line per row
save_fallback(rs) == File([i \in 1..Len(rs) |-> Dumps(rs[i])])

RECURSIVE SplitLines(_)
\* read_text().splitlines(): a line holding a raw line separator comes back as
\* two fragments, neither of which is a JSON document
SplitLines(text) ==
    IF text = <<>> THEN <<>>
    ELSE LET l == Head(text)
         IN (IF HasLineSep(l.json)
             THEN << [frag |-> 1, of |-> l.json], [frag |-> 2, of |-> l.json] >>
             ELSE << l >>) \o SplitLines(Tail(text))

Malformed(line) == "json" \notin DOMAIN line

\* json.loads of a well-formed line
Loads(line) == line.json

\* load_fallback: [] for a missing file, raises when a line is not JSON
load_fallback(file) ==
    IF ~file.exists THEN [raised |-> FALSE, records |-> <<>>]
    ELSE LET lines == SplitLines(file.lines)
         IN IF \E i \in 1..Len(lines) : Malformed(lines[i])
            THEN [raised |-> TRUE, records |-> <<>>]
            ELSE [raised |-> FALSE,
                  records |-> [i \in 1..Len(lines) |-> Loads(lines[i])]]

\* ------------------------------------------------------------------------
\* The document store: update_one / UpdateOne with upsert=True and $set
\* ------------------------------------------------------------------------

Matches(doc, key) == \A f \in DOMAIN key : f \in DOMAIN doc /\ doc[f] = key[f]

\* {"$set": r} on doc (on the filter's fields for an insert)
SetFields(doc, r) ==
    [f \in (DOMAIN doc) \cup (DOMAIN r) |-> IF f \in DOMAIN r THEN r[f] ELSE doc[f]]

\* store_to_db.upsert_to_mongo line 59
StoreKey(r) == [url |-> r.url]

\* import_fallback.try_import line 68
ImportKey(rec) == IF rec.url # "" THEN [url |-> rec.url] ELSE [title |-> rec.title]

\* The unique index on "url" (try_import line 62) rejects a write that would
\* leave two documents with one url.
UrlClash(docs, doc) == \E e \in docs : e.url = doc.url

\* One upsert: the outcomes the store can produce (which matching document is
\* updated is the store's choice when several match).
UpdateOne(docs, key, r) ==
    LET M == {d \in docs : Matches(d, key)}
    IN IF M = {}
       THEN LET n == SetFields(key, r)
            IN IF UrlClash(docs, n)
               THEN {[docs |-> docs, err |-> TRUE]}
               ELSE {[docs |-> docs \cup {n}, err |-> FALSE]}
       ELSE { LET n == SetFields(d, r)
                  rest == docs \ {d}
              IN IF UrlClash(rest, n)
                 THEN [docs |-> docs, err |-> TRUE]
                 ELSE [docs |-> rest \cup {n}, err |-> FALSE] : d \in M }

RECURSIVE upsert_to_mongo(_, _)
\* store_to_db.upsert_to_mongo over the rows whose update_one returned
upsert_to_mongo(docs, rs) ==
    IF rs = <<>> THEN docs
    ELSE LET o == CHOOSE x \in UpdateOne(docs, StoreKey(Head(rs)), Head(rs)) : TRUE
         IN upsert_to_mongo(o.docs, Tail(rs))

RECURSIVE ApplyOps(_, _, _, _)
\* the operations of one bulk write, executed in the order ops; an operation
\* that errs is skipped and the others still run (ordered=False)
ApplyOps(docs, ops, err, n) ==
    IF ops = <<>> THEN {[docs |-> docs, err |-> err, n |-> n]}
    ELSE UNION { ApplyOps(o.docs, Tail(ops), err \/ o.err, IF o.err THEN n ELSE n + 1)
                 : o \in UpdateOne(docs, ImportKey(Head(ops)), Head(ops)) }

\* The orders in which the store may execute one bulk write of ordered=False
ExecutionOrders(batch) ==
    { [i \in 1..Len(batch) |-> batch[p[i]]] : p \in Permutations(1..Len(batch)) }

\* col.bulk_write(ops, ordered=False), line 72
bulk_write(docs, batch) ==
    UNION { ApplyOps(docs, ops, FALSE, 0) : ops \in ExecutionOrders(batch) }

\* variant of try_import: the records go out in one bulk write
try_import_unbatched(docs, recs, mayFail, n) ==
    IF recs = <<>> THEN {[docs |-> docs, ok |-> TRUE, n |-> n, sent |-> <<>>]}
    ELSE (IF mayFail
          THEN {[docs |-> docs, ok |-> FALSE, n |-> n,
                 sent |-> << [ops |-> recs, ok |-> FALSE] >>]}
          ELSE {})
         \cup { [docs |-> o.docs, ok |-> ~o.err, n |-> n + o.n,
                 sent |-> << [ops |-> recs, ok |-> ~o.err] >>] : o \in bulk_write(docs, recs) }

RECURSIVE try_import(_, _, _, _)
\* import_fallback.try_import: the outcomes of sending recs in batches of
\* BATCH_SIZE; mayFail says the tier can fail a bulk write (nothing applied)
try_import(docs, recs, mayFail, n) ==
    IF recs = <<>> THEN {[docs |-> docs, ok |-> TRUE, n |-> n, sent |-> <<>>]}
    ELSE LET k == Min(BATCH_SIZE, Len(recs))
             batch == SubSeq(recs, 1, k)
             rest == SubSeq(recs, k + 1, Len(recs))
             Sent(ok) == << [ops |-> batch, ok |-> ok] >>
         IN (IF mayFail
             THEN {[docs |-> docs, ok |-> FALSE, n |-> n, sent |-> Sent(FALSE)]}
             ELSE {})
            \cup UNION { IF o.err
                         THEN {[docs |-> o.docs, ok |-> FALSE, n |-> n + o.n,
                                sent |-> Sent(FALSE)]}
                         ELSE { [r EXCEPT !.sent = Sent(TRUE) \o r.sent]
                                : r \in try_import(o.docs, rest, mayFail, n + o.n) }
                         : o \in bulk_write(docs, batch) }

\* ------------------------------------------------------------------------
\* Initial state
\* ------------------------------------------------------------------------

NoPre == [log |-> NoFile, imported |-> NoFile, primary |-> {}, local |-> {}]

Snapshot == [log |-> log, imported |-> imported, primary |-> primary, local |-> local]

\* a URL of the crawl: host "" is a URL without a network location (mailto:)
Url(h, p, sl, fr) == [host |-> h, path |-> p, slash |-> sl, frag |-> fr]

NoUrl == Url("", "", FALSE, FALSE)

\* html of main: None (or empty text), or the text of a fetched page
NoHtml == "none"

SomeHtml == "text"

\* a site whose pages and fetch outcomes are not fixed in advance
AnyWeb == [any |-> TRUE]

\* what requests.get can meet: an exception (timeout, connection error, no
\* adapter for the scheme) or a response with a status code
NoAnswer == [raised |-> FALSE, status |-> 0]

Raised == [raised |-> TRUE, status |-> 0]

Answer200 == [raised |-> FALSE, status |-> 200]

\* 300 Multiple Choices is a response requests does not follow; it has a body
Answers == { Raised } \cup { [raised |-> FALSE, status |-> s] : s \in {200, 300, 404} }

\* Response.raise_for_status raises for the statuses 400..599
raise_for_status(status) == status >= 400 /\ status < 600

\* variant of requests_get: every status outside 200..299 gives None
requests_get_only2xx(a) == IF a.raised \/ a.status < 200 \/ a.status >= 300 THEN NoAnswer ELSE a

\* requests_get, lines 37-44: the response, or None (NoAnswer) when requests.get
\* or raise_for_status raised
requests_get(a) == IF a.raised \/ raise_for_status(a.status) THEN NoAnswer ELSE a

\* no summarizer is running
SumOff ==
    /\ sconf = [retries |-> 0, backoff |-> 0]
    /\ total = 0
    /\ summaries = <<>>
    /\ spc = "off"
    /\ attempt = 0
    /\ calls = 0
    /\ waits = <<>>

\* no crawl is running
CrawlOff ==
    /\ startUrl = NoUrl
    /\ conf = [MAX_RECORDS |-> 0, MAX_PAGES_TO_VISIT |-> 0]
    /\ web = AnyWeb
    /\ found = NoFile
    /\ q = <<>>
    /\ visited = {}
    /\ articles = {}
    /\ pages_visited = 0
    /\ scraped_rows = <<>>
    /\ outCsv = NoFile
    /\ cpc = "off"
    /\ cur = NoUrl
    /\ html = NoHtml
    /\ gets = <<>>
    /\ sels = <<>>
    /\ answer = NoAnswer
    /\ sessions = 0
    /\ pause = "start"

IngestInitWith(csvs, reaches) ==
    /\ inputs = csvs
    /\ reach \in reaches
    /\ primary = {}
    /\ local = {}
    /\ log = NoFile
    /\ imported = NoFile
    /\ pc = "idle"
    /\ rows = <<>>
    /\ uri = FALSE
    /\ acked = 0
    /\ applied = [t \in Tiers |-> 0]
    /\ sent = [t \in Tiers |-> <<>>]
    /\ tried = {}
    /\ pre = NoPre
    /\ outcome = "none"

Reaches == [Tiers -> {"down", "flaky", "up"}]

IngestInit == IngestInitWith(CsvUniverse, Reaches)

\* no ingestion script is running and none is started
IngestOff == IngestInitWith({}, {[t \in Tiers |-> "down"]})

Init == IngestInit /\ CrawlOff /\ SumOff

\* ------------------------------------------------------------------------
\* The environment: a tier that is "up" stays reachable; otherwise its
\* reachability changes between runs
\* ------------------------------------------------------------------------

RunVarsReset ==
    /\ rows' = <<>>
    /\ uri' = FALSE
    /\ acked' = 0
    /\ applied' = [t \in Tiers |-> 0]
    /\ sent' = [t \in Tiers |-> <<>>]
    /\ tried' = {}
    /\ pre' = NoPre
    /\ outcome' = "none"

EnvChange ==
    /\ UNCHANGED <<crawlVars, sumVars>>
    /\ pc = "idle"
    /\ \E t \in Tiers, s \in {"down", "flaky", "up"} :
         /\ reach[t] # "up"
         /\ s # reach[t]
         /\ reach' = [reach EXCEPT ![t] = s]
    /\ UNCHANGED <<inputs, primary, local, log, imported, pc, rows, uri, acked,
                   applied, sent, tried, pre, outcome>>

\* ------------------------------------------------------------------------
\* store_to_db.main: the initial ingestion run
\* ------------------------------------------------------------------------

\* lines 65-76: the configuration check and load_rows
\* variant of ConfigMissing: the run does not look at MONGO_URI
ConfigMissing_never(u) == FALSE

\* store_to_db.main, lines 66-68: MONGO_URI is None
ConfigMissing(u) == ~u

SStart ==
    /\ UNCHANGED <<crawlVars, sumVars>>
    /\ pc = "idle"
    /\ \E csv \in inputs, u \in BOOLEAN :
         /\ uri' = u
         /\ IF ConfigMissing(u)
            THEN /\ pc' = "s_done" /\ outcome' = "config" /\ rows' = <<>>
            ELSE IF csv = <<>>
            THEN /\ pc' = "s_done" /\ outcome' = "norows" /\ rows' = <<>>
            ELSE /\ pc' = "s_primary" /\ outcome' = "none" /\ rows' = csv
    /\ pre' = Snapshot
    /\ acked' = 0
    /\ tried' = {}
    /\ UNCHANGED <<inputs, reach, primary, local, log, imported, applied, sent>>

\* lines 78-95: ping, then update_one row by row; k rows are acknowledged
\* before the first failure (k = Len(rows): none fails)
SPrimary ==
    /\ UNCHANGED <<crawlVars, sumVars>>
    /\ pc = "s_primary"
    /\ tried' = tried \cup {"primary"}
    /\ \E k \in 0..Len(rows) :
         /\ (k = Len(rows)) => reach["primary"] # "down"
         /\ (k < Len(rows)) => reach["primary"] # "up"
         /\ (reach["primary"] = "down") => k = 0
         /\ primary' = upsert_to_mongo(primary, SubSeq(rows, 1, k))
         /\ acked' = k
         /\ IF k = Len(rows)
            THEN pc' = "s_done" /\ outcome' = "stored"
            ELSE pc' = "s_except" /\ outcome' = "none"
    /\ UNCHANGED <<inputs, reach, local, log, imported, rows, uri, applied, sent, pre>>

\* variant of SSave: only the rows that were not acknowledged are written
SSave_unacked ==
    /\ UNCHANGED <<crawlVars, sumVars>>
    /\ pc = "s_except"
    /\ log' = save_fallback(SubSeq(rows, acked + 1, Len(rows)))
    /\ pc' = "s_done"
    /\ outcome' = "degraded"
    /\ UNCHANGED <<inputs, reach, primary, local, imported, rows, uri, acked,
                   applied, sent, tried, pre>>

\* lines 96-99: the except branch, save_fallback(rows)
SSave ==
    /\ UNCHANGED <<crawlVars, sumVars>>
    /\ pc = "s_except"
    /\ log' = save_fallback(rows)
    /\ pc' = "s_done"
    /\ outcome' = "degraded"
    /\ UNCHANGED <<inputs, reach, primary, local, imported, rows, uri, acked,
                   applied, sent, tried, pre>>

\* the process ends
SExit ==
    /\ UNCHANGED <<crawlVars, sumVars>>
    /\ pc = "s_done"
    /\ pc' = "idle"
    /\ RunVarsReset
    /\ UNCHANGED <<inputs, reach, primary, local, log, imported>>

\* ------------------------------------------------------------------------
\* import_fallback.main: the reconciliation run
\* ------------------------------------------------------------------------

\* lines 77-84 and 102: load_fallback, then the first tier to try
RStart ==
    /\ UNCHANGED <<crawlVars, sumVars>>
    /\ pc = "idle"
    /\ \E u \in BOOLEAN :
         LET lf == load_fallback(log)
         IN /\ uri' = u
            /\ IF lf.raised
               THEN /\ pc' = "r_done" /\ outcome' = "crashed" /\ rows' = <<>>
               ELSE IF lf.records = <<>>
               THEN /\ pc' = "r_done" /\ outcome' = "norecords" /\ rows' = <<>>
               ELSE /\ pc' = (IF u THEN "r_primary" ELSE "r_local")
                    /\ outcome' = "none"
                    /\ rows' = lf.records
    /\ pre' = Snapshot
    /\ applied' = [t \in Tiers |-> 0]
    /\ sent' = [t \in Tiers |-> <<>>]
    /\ tried' = {}
    /\ UNCHANGED <<inputs, reach, primary, local, log, imported, acked>>

\* variant of Rename: the log is copied, not renamed
Rename_copy(next, done, how) ==
    /\ log' = log
    /\ imported' = log
    /\ pc' = "r_done"
    /\ outcome' = how

\* FALLBACK_PATH.rename(FALLBACK_PATH.with_suffix(".imported.jsonl")): replaces
\* an existing target on POSIX and raises FileExistsError on Windows
Rename(next, done, how) ==
    \/ /\ log' = NoFile
       /\ imported' = log
       /\ pc' = "r_done"
       /\ outcome' = how
    \/ /\ imported.exists
       /\ UNCHANGED <<log, imported>>
       /\ pc' = next
       /\ outcome' = done

\* variant of ImportTier: the log is renamed whatever try_import returned
ImportTier_always(t, docs, next, done, how) ==
    \/ /\ reach[t] # "up"
       /\ docs' = docs
       /\ applied' = applied
       /\ sent' = sent
       /\ UNCHANGED <<log, imported>>
       /\ pc' = next
       /\ outcome' = done
    \/ /\ reach[t] # "down"
       /\ \E o \in try_import(docs, rows, reach[t] = "flaky", 0) :
            /\ docs' = o.docs
            /\ applied' = [applied EXCEPT ![t] = o.n]
            /\ sent' = [sent EXCEPT ![t] = o.sent]
            /\ Rename(next, done, how)

\* variant of ImportTier: a tier that cannot be reached is attempted again
ImportTier_retry(t, docs, next, done, how) ==
    \/ /\ reach[t] # "up"
       /\ docs' = docs
       /\ applied' = applied
       /\ sent' = sent
       /\ UNCHANGED <<log, imported>>
       /\ pc' = (IF t \in tried THEN next ELSE pc)
       /\ outcome' = (IF t \in tried THEN done ELSE outcome)
    \/ /\ reach[t] # "down"
       /\ \E o \in try_import(docs, rows, reach[t] = "flaky", 0) :
            /\ docs' = o.docs
            /\ applied' = [applied EXCEPT ![t] = o.n]
            /\ sent' = [sent EXCEPT ![t] = o.sent]
            /\ IF o.ok
               THEN Rename(next, done, how)
               ELSE /\ UNCHANGED <<log, imported>>
                    /\ pc' = next
                    /\ outcome' = done

\* one tier of main: ping, try_import, rename; any exception leads on to next
ImportTier(t, docs, next, done, how) ==
    \/ /\ reach[t] # "up"
       /\ docs' = docs
       /\ applied' = applied
       /\ sent' = sent
       /\ UNCHANGED <<log, imported>>
       /\ pc' = next
       /\ outcome' = done
    \/ /\ reach[t] # "down"
       /\ \E o \in try_import(docs, rows, reach[t] = "flaky", 0) :
            /\ docs' = o.docs
            /\ applied' = [applied EXCEPT ![t] = o.n]
            /\ sent' = [sent EXCEPT ![t] = o.sent]
            /\ IF o.ok
               THEN Rename(next, done, how)
               ELSE /\ UNCHANGED <<log, imported>>
                    /\ pc' = next
                    /\ outcome' = done

\* lines 84-100: the tier of MONGO_URI
RPrimary ==
    /\ UNCHANGED <<crawlVars, sumVars>>
    /\ pc = "r_primary"
    /\ tried' = tried \cup {"primary"}
    /\ ImportTier("primary", primary, "r_local", "none", "imported_primary")
    /\ UNCHANGED <<inputs, reach, local, rows, uri, acked, pre>>

\* variant of RLocal: the run gives up without an attempt on the local tier
RLocal_skipped ==
    /\ UNCHANGED <<crawlVars, sumVars>>
    /\ pc = "r_local"
    /\ pc' = "r_done"
    /\ outcome' = "failed"
    /\ UNCHANGED <<inputs, reach, primary, local, log, imported, rows, uri,
                   acked, applied, sent, tried, pre>>

\* lines 102-132: the local tier, then the remediation text
RLocal ==
    /\ UNCHANGED <<crawlVars, sumVars>>
    /\ pc = "r_local"
    /\ tried' = tried \cup {"local"}
    /\ ImportTier("local", local, "r_done", "failed", "imported_local")
    /\ UNCHANGED <<inputs, reach, primary, rows, uri, acked, pre>>

\* the process ends
RExit ==
    /\ UNCHANGED <<crawlVars, sumVars>>
    /\ pc = "r_done"
    /\ pc' = "idle"
    /\ RunVarsReset
    /\ UNCHANGED <<inputs, reach, primary, local, log, imported>>

IngestNext ==
    \/ EnvChange
    \/ SStart
    \/ SPrimary
    \/ SSave
    \/ SExit
    \/ RStart
    \/ RPrimary
    \/ RLocal
    \/ RExit

Next == IngestNext

Spec == Init /\ [][Next]_vars

\* ------------------------------------------------------------------------
\* scraper_crawl.py: URLs, links and pages
\* ------------------------------------------------------------------------

\* scraper_crawl.py line 28 (MAX_RECORDS, default 100; 2 here)
MAX_RECORDS == 2

\* scraper_crawl.py line 32 (MAX_PAGES_TO_VISIT, default 2000; 3 here)
MAX_PAGES_TO_VISIT == 3

\* scraper_crawl.py line 191: the Sink buffer is flushed at 10 rows
FLUSH_AT == 10

\* the most <a href> elements a page of the model carries
MaxLinks == 2

Origin == "origin"

\* the href values pages carry, resolved against the page (urljoin)
HrefUniverse ==
    { Url(Origin, "article1", TRUE, FALSE),
      Url(Origin, "home", TRUE, TRUE),
      Url("other", "article1", FALSE, FALSE),
      Url("", "mail", FALSE, FALSE) }

\* the values START_URL is configured with
StartUrls == { Url(Origin, "home", TRUE, FALSE), Url(Origin, "article1", TRUE, FALSE) }

\* the url column of the OUTPUT_CSV a run may find: no file, or rows of a prior run
PriorCsvs ==
    { NoFile,
      File(<< Url(Origin, "article9", TRUE, FALSE) >>),
      File(<< Url(Origin, "article1", TRUE, FALSE) >>),
      File(<< Url(Origin, "article8", FALSE, FALSE), Url(Origin, "article9", FALSE, FALSE) >>),
      File(<< Url(Origin, "article7", FALSE, FALSE), Url(Origin, "article8", FALSE, FALSE),
              Url(Origin, "article9", FALSE, FALSE) >>) }

\* the sequences of at most n elements of S
RECURSIVE SeqsUpTo(_, _)
SeqsUpTo(S, n) ==
    IF n = 0 THEN { <<>> }
    ELSE LET shorter == SeqsUpTo(S, n - 1)
         IN shorter \cup { Append(s, x) : s \in {t \in shorter : Len(t) = n - 1}, x \in S }

\* what extract_links finds in a fetched text: the hrefs of the page
LinkLists == SeqsUpTo(HrefUniverse, MaxLinks)

\* u.rstrip("/")
rstrip(u) == [u EXCEPT !.slash = FALSE]

\* normalize_url, lines 67-70: the fragment is cut, then the trailing slash
normalize_url(href) == rstrip([href EXCEPT !.frag = FALSE])

\* extract_links, lines 72-80
extract_links(hrefs) == [i \in 1..Len(hrefs) |-> normalize_url(hrefs[i])]

\* is_internal, lines 61-65
is_internal(u, base_netloc) == u.host = "" \/ u.host = base_netloc

\* the paths of the model that hold "/article"
ArticlePaths ==
    { "article1", "article2", "article3", "article4", "article5", "article6",
      "article7", "article8", "article9", "article10", "article11", "article12" }

\* line 178: the article-path heuristic
IsArticlePath(u) == u.path \in ArticlePaths

\* variant of AlreadyVisited: the visited check never fires
AlreadyVisited_never(u) == FALSE

\* line 148
AlreadyVisited(u) == u \in visited

\* variant of LoopCond: the loop goes on at pages_visited = MAX_PAGES_TO_VISIT
LoopCond_pagesInclusive ==
    /\ q # <<>>
    /\ Cardinality(articles) < conf.MAX_RECORDS
    /\ pages_visited <= conf.MAX_PAGES_TO_VISIT

\* variant of LoopCond: the loop goes on at len(articles) = MAX_RECORDS
LoopCond_inclusive ==
    /\ q # <<>>
    /\ Cardinality(articles) <= conf.MAX_RECORDS
    /\ pages_visited < conf.MAX_PAGES_TO_VISIT

\* line 146: the condition of the main loop
LoopCond ==
    /\ q # <<>>
    /\ Cardinality(articles) < conf.MAX_RECORDS
    /\ pages_visited < conf.MAX_PAGES_TO_VISIT

RECURSIVE Enqueue_unchecked(_, _, _)
\* variant of Enqueue: the internal links are appended without the visited check
Enqueue_unchecked(queue, links, base_netloc) ==
    IF links = <<>> THEN queue
    ELSE Enqueue_unchecked(IF is_internal(Head(links), base_netloc)
                           THEN Append(queue, rstrip(Head(links)))
                           ELSE queue,
                           Tail(links), base_netloc)

RECURSIVE Enqueue_front(_, _, _)
\* variant of Enqueue: a new link is put at the head of the frontier
Enqueue_front(queue, links, base_netloc) ==
    IF links = <<>> THEN queue
    ELSE LET link == Head(links)
             normalized == rstrip(link)
         IN Enqueue_front(IF is_internal(link, base_netloc) /\ ~AlreadyVisited(normalized)
                          THEN << normalized >> \o queue
                          ELSE queue,
                          Tail(links), base_netloc)

RECURSIVE Enqueue(_, _, _)
\* lines 169-174: the internal links not yet visited are appended in page order
Enqueue(queue, links, base_netloc) ==
    IF links = <<>> THEN queue
    ELSE LET link == Head(links)
             normalized == rstrip(link)
         IN Enqueue(IF is_internal(link, base_netloc) /\ ~AlreadyVisited(normalized)
                    THEN Append(queue, normalized)
                    ELSE queue,
                    Tail(links), base_netloc)

\* append_csv that raises partway (the disk is full, the file is locked): the
\* file as it may be left, with fewer rows written than rs holds
PartialWrites(file, rs) ==
    { File(file.lines \o SubSeq(rs, 1, k)) : k \in 0..(Len(rs) - 1) }

\* variant of append_csv: the file is opened with mode "w"
append_csv_overwrite(file, rs) == File(rs)

\* append_csv, lines 115-123
append_csv(file, rs) == File(file.lines \o rs)

\* variant of RunStart: the URLs of the output CSV are not loaded
RunStart_noPreload ==
    /\ found = outCsv
    /\ q = << startUrl >>
    /\ visited = {}
    /\ articles = {}
    /\ pages_visited = 0
    /\ scraped_rows = <<>>
    /\ cpc = "loop"
    /\ cur = NoUrl
    /\ html = NoHtml
    /\ gets = <<>>
    /\ sels = <<>>
    /\ answer = NoAnswer
    /\ sessions = 0
    /\ pause = "start"

\* lines 126-144: the state before the main loop
RunStart ==
    /\ found = outCsv
    /\ q = << startUrl >>
    /\ visited = {}
    /\ articles = { rstrip(outCsv.lines[i]) : i \in 1..Len(outCsv.lines) }
    /\ pages_visited = 0
    /\ scraped_rows = <<>>
    /\ cpc = "loop"
    /\ cur = NoUrl
    /\ html = NoHtml
    /\ gets = <<>>
    /\ sels = <<>>
    /\ answer = NoAnswer
    /\ sessions = 0
    /\ pause = "start"

\* a crawl run over any site, with the small limits
CrawlInit ==
    /\ startUrl \in StartUrls
    /\ conf = [MAX_RECORDS |-> MAX_RECORDS, MAX_PAGES_TO_VISIT |-> MAX_PAGES_TO_VISIT]
    /\ web = AnyWeb
    /\ outCsv \in PriorCsvs
    /\ RunStart

\* variant of CDequeue: the URL is not added to visited before its fetch
CDequeue_unmarked ==
    /\ UNCHANGED <<ingestVars, sumVars>>
    /\ cpc = "loop"
    /\ LoopCond
    /\ q' = Tail(q)
    /\ IF AlreadyVisited(Head(q))
       THEN UNCHANGED <<pages_visited, cpc, cur>>
       ELSE /\ pages_visited' = pages_visited + 1
            /\ cur' = Head(q)
            /\ cpc' = "fetch"
    /\ UNCHANGED <<startUrl, conf, web, found, visited, articles, scraped_rows, outCsv,
                   html, gets, sels, answer, sessions, pause>>

\* variant of CDequeue: the counter is raised before the visited check
CDequeue_countsSkips ==
    /\ UNCHANGED <<ingestVars, sumVars>>
    /\ cpc = "loop"
    /\ LoopCond
    /\ q' = Tail(q)
    /\ pages_visited' = pages_visited + 1
    /\ IF AlreadyVisited(Head(q))
       THEN UNCHANGED <<visited, cpc, cur>>
       ELSE /\ visited' = visited \cup {Head(q)}
            /\ cur' = Head(q)
            /\ cpc' = "fetch"
    /\ UNCHANGED <<startUrl, conf, web, found, articles, scraped_rows, outCsv, html, gets, sels,
                   answer, sessions, pause>>

\* lines 146-151: one test of the loop condition and, when it holds, popleft,
\* the visited check, visited.add and the counter
CDequeue ==
    /\ UNCHANGED <<ingestVars, sumVars>>
    /\ cpc = "loop"
    /\ LoopCond
    /\ q' = Tail(q)
    /\ IF AlreadyVisited(Head(q))
       THEN UNCHANGED <<visited, pages_visited, cpc, cur>>
       ELSE /\ visited' = visited \cup {Head(q)}
            /\ pages_visited' = pages_visited + 1
            /\ cur' = Head(q)
            /\ cpc' = "fetch"
    /\ UNCHANGED <<startUrl, conf, web, found, articles, scraped_rows, outCsv, html, gets, sels, answer, sessions, pause>>

\* what requests.get meets for u: requests has no adapter for a URL without
\* host (mailto:) and raises; the fixed graph answers 200
PageAnswers(u) == IF u.host = "" THEN { Raised } ELSE IF web.any THEN Answers ELSE { Answer200 }

\* lines 154-157 and 165-166: requests_get; None leads to the fallback, a
\* response without text ends the iteration
CRequestsGet ==
    /\ UNCHANGED <<ingestVars, sumVars>>
    /\ cpc = "fetch"
    /\ gets' = Append(gets, cur)
    /\ pause' = "due"
    /\ \E a \in PageAnswers(cur) :
         IF requests_get(a) = NoAnswer
         THEN answer' = a /\ html' = NoHtml /\ cpc' = "selenium"
         ELSE \/ answer' = a /\ html' = SomeHtml /\ cpc' = "process"
              \/ web.any /\ answer' = NoAnswer /\ html' = NoHtml /\ cpc' = "loop"
    /\ UNCHANGED <<startUrl, conf, web, found, q, visited, articles, pages_visited, scraped_rows,
                   outCsv, cur, sels, sessions>>

\* lines 158-160 with lines 46-53 of fetch_with_selenium: the driver is
\* installed and the browser started (a session is open), or one of the two
\* raises and the except of lines 161-163 ends the iteration
CSeleniumStart ==
    /\ UNCHANGED <<ingestVars, sumVars>>
    /\ cpc = "selenium"
    /\ sels' = Append(sels, cur)
    /\ \/ sessions' = sessions + 1 /\ cpc' = "browser" /\ answer' = answer
       \/ sessions' = sessions /\ cpc' = "loop" /\ answer' = NoAnswer
    /\ UNCHANGED <<startUrl, conf, web, found, q, visited, articles, pages_visited, scraped_rows,
                   outCsv, cur, html, gets, pause>>

\* variant of driver_quit: quit is called after a page load that returned only
driver_quit_onReturn(n, raised) == IF raised THEN n ELSE n - 1

\* lines 58-59: the finally clause calls driver.quit() however the try is left
driver_quit(n, raised) == n - 1

\* variant of CSelenium: a URL whose fetch failed is queued again
CSelenium_requeue ==
    /\ UNCHANGED <<ingestVars, sumVars>>
    /\ cpc = "browser"
    /\ \E raised \in BOOLEAN :
         /\ sessions' = driver_quit(sessions, raised)
         /\ \/ ~raised /\ html' = SomeHtml /\ cpc' = "process" /\ answer' = answer /\ q' = q
            \/ html' = NoHtml /\ cpc' = "loop" /\ answer' = NoAnswer /\ q' = Append(q, cur)
    /\ UNCHANGED <<startUrl, conf, web, found, visited, articles, pages_visited, scraped_rows,
                   outCsv, cur, gets, sels, pause>>

\* lines 54-59 of fetch_with_selenium and lines 161-166: driver.get and
\* page_source return or raise, the session is quit; an exception or an empty
\* page source ends the iteration
CSelenium ==
    /\ UNCHANGED <<ingestVars, sumVars>>
    /\ cpc = "browser"
    /\ \E raised \in BOOLEAN :
         /\ sessions' = driver_quit(sessions, raised)
         /\ \/ ~raised /\ html' = SomeHtml /\ cpc' = "process" /\ answer' = answer
            \/ html' = NoHtml /\ cpc' = "loop" /\ answer' = NoAnswer
    /\ UNCHANGED <<startUrl, conf, web, found, q, visited, articles, pages_visited, scraped_rows,
                   outCsv, cur, gets, sels, pause>>

\* variant of WantsParse: the ArticleSet is not consulted
WantsParse_always(u) == IsArticlePath(u)

\* lines 176-180: parse_article is called for an article path not yet collected
WantsParse(u) == IsArticlePath(u) /\ rstrip(u) \notin articles

\* the <a href> values of the page fetched for u: those of the fixed graph (the
\* server answers u with and without its trailing slash by one page), or any
PageLinks(u) == IF web.any THEN LinkLists ELSE { web.links[u.path] }

\* what parse_article looks at for the title: whether the page has an <h1>, and
\* whether it has no <title>, a <title> without a string (empty, or with
\* nested markup: soup.title.string is None) or a <title> with a string
Pages == [h1 : BOOLEAN, title : {"absent", "nostring", "string"}]

\* lines 83-88 of parse_article: the title is taken from the <h1>, else from
\* soup.title.string.strip(), which raises AttributeError on None; the other
\* fields have defaults and do not raise
parse_article_raises(p) == ~p.h1 /\ p.title = "nostring"

\* whether parse_article returns: a page of the fixed graph carries an <h1>
PageParses == IF web.any THEN { ~parse_article_raises(p) : p \in Pages } ELSE { TRUE }

\* lines 168-193: the links of the page are queued, an article page is parsed
\* (parse_article raises when soup.title.string is None: parses = FALSE) and
\* buffered, the delay is awaited and a full buffer is flushed; an exception
\* of append_csv is not caught and leaves main
CProcess ==
    /\ UNCHANGED <<ingestVars, sumVars>>
    /\ cpc = "process"
    /\ \E hrefs \in PageLinks(cur), parses \in (IF WantsParse(cur) THEN PageParses ELSE {TRUE}) :
         LET norm == rstrip(cur)
             collect == WantsParse(cur) /\ parses
             buffer == IF collect THEN Append(scraped_rows, cur) ELSE scraped_rows
         IN /\ q' = Enqueue(q, extract_links(hrefs), startUrl.host)
            /\ articles' = (IF collect THEN articles \cup {norm} ELSE articles)
            /\ IF Len(buffer) >= FLUSH_AT
               THEN \/ /\ outCsv' = append_csv(outCsv, buffer)
                       /\ scraped_rows' = <<>>
                       /\ cpc' = "loop"
                    \/ /\ outCsv' \in PartialWrites(outCsv, buffer)
                       /\ scraped_rows' = buffer
                       /\ cpc' = "flush_failed"
               ELSE outCsv' = outCsv /\ scraped_rows' = buffer /\ cpc' = "loop"
    /\ html' = NoHtml
    /\ answer' = NoAnswer
    /\ pause' = "awaited"
    /\ UNCHANGED <<startUrl, conf, web, found, visited, pages_visited, cur, gets, sels, sessions>>

\* line 169 with lines 67-70: urljoin raises ValueError on an href it cannot
\* split (such as "http://["); extract_links is called outside any try, so the
\* exception leaves main: nothing of the page is queued or collected and the
\* buffer is not flushed
CExtractRaises ==
    /\ UNCHANGED <<ingestVars, sumVars>>
    /\ cpc = "process"
    /\ web.any
    /\ cpc' = "crashed"
    /\ html' = NoHtml
    /\ UNCHANGED <<startUrl, conf, web, found, q, visited, articles, pages_visited,
                   scraped_rows, outCsv, cur, gets, sels, answer, sessions, pause>>

\* lines 195-197: the final flush raises; the exception leaves main
CFinishRaises ==
    /\ UNCHANGED <<ingestVars, sumVars>>
    /\ cpc = "loop"
    /\ ~LoopCond
    /\ scraped_rows # <<>>
    /\ outCsv' \in PartialWrites(outCsv, scraped_rows)
    /\ cpc' = "flush_failed"
    /\ UNCHANGED <<startUrl, conf, web, found, q, visited, articles, pages_visited,
                   scraped_rows, cur, html, gets, sels, answer, sessions, pause>>

\* lines 195-200: the loop is left and the buffer gets its final flush
CFinish ==
    /\ UNCHANGED <<ingestVars, sumVars>>
    /\ cpc = "loop"
    /\ ~LoopCond
    /\ outCsv' = (IF scraped_rows # <<>> THEN append_csv(outCsv, scraped_rows) ELSE outCsv)
    /\ cpc' = "done"
    /\ UNCHANGED <<startUrl, conf, web, found, q, visited, articles, pages_visited, scraped_rows,
                   cur, html, gets, sels, answer, sessions, pause>>

CrawlNext ==
    \/ CDequeue
    \/ CRequestsGet
    \/ CSeleniumStart
    \/ CSelenium
    \/ CProcess
    \/ CExtractRaises
    \/ CFinish
    \/ CFinishRaises

CrawlSpecInit == CrawlInit /\ IngestOff /\ SumOff

CrawlSpec == CrawlSpecInit /\ [][CrawlNext]_vars

\* the crawl as a running process: a step that can be taken is taken
CrawlFairSpec == CrawlSpecInit /\ [][CrawlNext]_vars /\ WF_vars(CrawlNext)

\* ------------------------------------------------------------------------
\* Helpers of the properties
\* ------------------------------------------------------------------------

Range(f) == {f[i] : i \in DOMAIN f}

IsPrefix(a, b) == Len(a) <= Len(b) /\ \A i \in 1..Len(a) : a[i] = b[i]

\* the records a file holds, line by line
FileRecords(file) == [i \in 1..Len(file.lines) |-> file.lines[i].json]

Store(t) == IF t = "primary" THEN primary ELSE local

StoreDegraded == pc = "s_done" /\ outcome = "degraded"

ReconSucceeded(t) ==
    /\ pc = "r_done"
    /\ outcome = (IF t = "primary" THEN "imported_primary" ELSE "imported_local")

\* docs holds record r: a document under r's key carries the field values of a
\* record of rs that has this key (a later record of one key replaces an
\* earlier one)
Holds(docs, r, rs) ==
    \E d \in docs :
        /\ Matches(d, ImportKey(r))
        /\ \E j \in 1..Len(rs) :
             /\ ImportKey(rs[j]) = ImportKey(r)
             /\ \A f \in DOMAIN rs[j] : d[f] = rs[j][f]

\* ------------------------------------------------------------------------
\* C4 (as claimed): the log is append-only: the content the log had before a
\* run that ends Degraded is a prefix of its content after the run.
\* ------------------------------------------------------------------------
C4_LogAppendOnly ==
    StoreDegraded => IsPrefix(pre.log.lines, log.lines)

\* ------------------------------------------------------------------------
\* C5 (as claimed): a run that ends Degraded (initial run) or gives up
\* (reconciliation run) has attempted the local store, and no run crashes
\* after a store failure.
\* ------------------------------------------------------------------------
C5_SecondaryBeforeDegraded ==
    /\ (StoreDegraded \/ (pc = "r_done" /\ outcome = "failed")) => "local" \in tried
    /\ outcome = "crashed" => tried = {}

\* C5 (amended): a reconciliation run gives up only after it attempted the
\* local store, which it reaches after the primary when MONGO_URI is set, and a
\* successful local import has sent every loaded record; the initial run has
\* attempted the primary alone when it ends Degraded, with the log written; a
\* crash never follows a store attempt.
C5_TierEscalation ==
    /\ (pc = "r_done" /\ outcome = "failed") => "local" \in tried
    /\ (pc = "r_done" /\ "local" \in tried /\ uri) => "primary" \in tried
    /\ ReconSucceeded("local") => applied["local"] = Len(rows)
    /\ StoreDegraded => (tried = {"primary"} /\ log.exists)
    /\ outcome = "crashed" => tried = {}

C5_Witness ==
    /\ pc = "r_done"
    /\ outcome = "failed"
    /\ tried = {"primary", "local"}
    /\ applied["primary"] > 0

SecondWins(docs, rs) ==
    \A i, j \in 1..Len(rs) :
        (/\ i < j
         /\ rs[i].url = rs[j].url
         /\ rs[j].url # ""
         /\ \A k \in (j + 1)..Len(rs) : rs[k].url # rs[j].url)
        => /\ Cardinality({d \in docs : d.url = rs[j].url}) = 1
           /\ \A d \in docs :
                d.url = rs[j].url => \A f \in DOMAIN rs[j] : d[f] = rs[j][f]

C8_SecondWriteWins ==
    /\ (pc = "s_done" /\ outcome = "stored") => SecondWins(primary, rows)
    /\ \A t \in Tiers : ReconSucceeded(t) => SecondWins(Store(t), rows)

\* ------------------------------------------------------------------------
\* C9 (as claimed): after an initial run that ended Degraded the log holds
\* exactly the rows whose update_one was not acknowledged.
\* ------------------------------------------------------------------------
C9_LogIffUnacked ==
    StoreDegraded => FileRecords(log) = SubSeq(rows, acked + 1, Len(rows))

\* C9 (amended): after an initial run that ended Degraded at least one row was
\* not acknowledged and the log holds every row of the run, acknowledged or
\* not, one line per row in the order of the CSV; a run whose rows were all
\* acknowledged leaves the log as it was.
C9_LogHoldsAllRows ==
    /\ StoreDegraded =>
          /\ acked < Len(rows)
          /\ log.exists
          /\ Len(log.lines) = Len(rows)
          /\ \A i \in 1..Len(rows) : log.lines[i] = [json |-> rows[i]]
    /\ (pc = "s_done" /\ outcome = "stored") => (acked = Len(rows) /\ log = pre.log)

C9_Witness == StoreDegraded /\ acked >= 1 /\ Len(rows) = 3

\* ------------------------------------------------------------------------
\* C10: a reconciliation run renames the log only when one tier it attempted
\* executed the upsert of every record of the log; a run that gives up leaves
\* the log and the Imported file as they were; every reconciliation run sends
\* all the records of the log.
\* ------------------------------------------------------------------------
C10_RenameOnlyAfterFullImport ==
    /\ (pc = "r_done" /\ (log # pre.log \/ imported # pre.imported)) =>
          /\ \E t \in tried : ReconSucceeded(t) /\ applied[t] = Len(rows)
          /\ rows = FileRecords(pre.log)
          /\ ~log.exists
    /\ (pc = "r_done" /\ outcome = "failed") =>
          (log = pre.log /\ imported = pre.imported)
    /\ pc \in {"r_primary", "r_local"} =>
          (log = pre.log /\ rows = FileRecords(log) /\ Len(rows) > 0)

C10_Witness ==
    /\ pc = "r_done"
    /\ outcome = "failed"
    /\ applied["primary"] = 2
    /\ Len(rows) = 3
    /\ log = pre.log

\* ------------------------------------------------------------------------
\* The ingestion layer under the scheduling that C2 assumes: a started script
\* runs to its end, reconciliation runs keep being invoked, and the store
\* tiers become reachable for good ("up" is never left).
\* ------------------------------------------------------------------------
FairCsvs == { <<RecA, RecB>>, <<RecA2>> }

FairInit == IngestInitWith(FairCsvs, Reaches) /\ CrawlOff /\ SumOff

StoreComesUp == EnvChange /\ \E t \in Tiers : reach[t] # "up" /\ reach'[t] = "up"

Fairness ==
    /\ WF_vars(SPrimary) /\ WF_vars(SSave) /\ WF_vars(SExit)
    /\ WF_vars(RPrimary) /\ WF_vars(RLocal) /\ WF_vars(RExit)
    /\ SF_vars(RStart)
    /\ SF_vars(StoreComesUp)

FairSpec == FairInit /\ [][Next]_vars /\ Fairness

Owed(r) == StoreDegraded /\ r \in Range(rows)

StoredOnce(r) ==
    \E t \in Tiers : Cardinality({d \in Store(t) : Matches(d, StoreKey(r))}) = 1

\* ------------------------------------------------------------------------
\* C2 (as claimed): a record that an initial run failed to write and left to
\* the log is eventually in a store, under exactly one document of its key.
\* ------------------------------------------------------------------------
C2_EventuallyStoredOnce ==
    \A r \in {RecA, RecA2, RecB} : [](Owed(r) => <>StoredOnce(r))

\* ------------------------------------------------------------------------
\* The scenario of C7: the CSV holds five records of five URLs
\* ------------------------------------------------------------------------
ScenarioRecord(u) == [url |-> u, title |-> "t", body |-> "v1"]

Five == << ScenarioRecord("s1"), ScenarioRecord("s2"), ScenarioRecord("s3"),
           ScenarioRecord("s4"), ScenarioRecord("s5") >>

ScenarioInit == IngestInitWith({Five}, Reaches) /\ CrawlOff /\ SumOff

ScenarioSpec == ScenarioInit /\ [][Next]_vars

BothDown == reach["primary"] = "down" /\ reach["local"] = "down"

OnlyLocalUp == reach["primary"] = "down" /\ reach["local"] = "up"

FiveLines == [exists |-> TRUE, lines |-> [i \in 1..5 |-> [json |-> Five[i]]]]

\* ------------------------------------------------------------------------
\* C7: with both tiers unreachable the initial run over five records ends
\* Degraded and leaves a log of exactly five lines; a reconciliation run over
\* that log with only the local tier reachable (and no Imported file in the
\* way) upserts the five records into the local store and renames the log.
\* ------------------------------------------------------------------------
C7_Scenario ==
    /\ (pc = "s_done" /\ uri /\ BothDown) =>
          /\ outcome = "degraded"
          /\ acked = 0
          /\ log = FiveLines
          /\ Len(log.lines) = 5
    /\ (pc = "r_done" /\ pre.log = FiveLines /\ ~pre.imported.exists /\ OnlyLocalUp) =>
          /\ outcome = "imported_local"
          /\ applied["local"] = 5
          /\ \A i \in 1..5 : \E d \in local : d = Five[i]
          /\ primary = pre.primary
          /\ ~log.exists
          /\ imported = FiveLines

C7_Witness ==
    /\ pc = "r_done"
    /\ pre.log = FiveLines
    /\ ~pre.imported.exists
    /\ OnlyLocalUp
    /\ pre.local = {}
    /\ primary = {}
    /\ Cardinality(local) = 5
    /\ imported = FiveLines

\* ------------------------------------------------------------------------
\* C1: in one crawl run no URL is passed twice to requests_get and none twice
\* to fetch_with_selenium, which is called only for a URL requests_get was
\* called for, however often the URL was put on the queue.
\* ------------------------------------------------------------------------
NoDuplicates(s) == \A i, j \in 1..Len(s) : i # j => s[i] # s[j]

C1_FetchedAtMostOnce ==
    /\ NoDuplicates(gets)
    /\ NoDuplicates(sels)
    /\ Range(sels) \subseteq Range(gets)

\* a URL that was fetched is at the head of the queue again, the loop going on
C1_Witness ==
    /\ cpc = "loop"
    /\ LoopCond
    /\ Head(q) \in Range(gets)
    /\ Len(gets) >= 2

\* ------------------------------------------------------------------------
\* C3 (as claimed): len(ArticleSet) <= MAX_RECORDS in every state of a crawl
\* run, whatever the output CSV held before.
\* ------------------------------------------------------------------------
C3_NeverExceeds == Cardinality(articles) <= MAX_RECORDS

\* C3 (amended): a run whose ArticleSet exceeds MAX_RECORDS got it from the
\* CSV and fetches nothing; a step collects a record (adds to ArticleSet)
\* only while len(ArticleSet) < MAX_RECORDS, one record at a time,
\* so that the run never takes ArticleSet past MAX_RECORDS.
Collects == articles' # articles

C3_BoundedYield ==
    /\ [](Cardinality(articles) > MAX_RECORDS =>
            (gets = <<>> /\ scraped_rows = <<>> /\ pages_visited = 0))
    /\ [][Collects =>
            /\ Cardinality(articles) < MAX_RECORDS
            /\ Cardinality(articles') = Cardinality(articles) + 1
            /\ articles \subseteq articles']_vars

\* the run stopped at the bound with an article URL left in the frontier
C3_Witness ==
    /\ cpc = "done"
    /\ Cardinality(articles) = MAX_RECORDS
    /\ Len(scraped_rows) = 1
    /\ pages_visited < MAX_PAGES_TO_VISIT
    /\ \E i \in 1..Len(q) : IsArticlePath(q[i])

\* ------------------------------------------------------------------------
\* C11 (as claimed): the frontier never holds a URL twice and never holds a
\* URL that was already dequeued (a dequeued URL is in visited from its
\* dequeue on).
\* ------------------------------------------------------------------------
C11_EnqueuedAtMostOnce ==
    /\ NoDuplicates(q)
    /\ \A i \in 1..Len(q) : q[i] \notin visited

\* C11 (amended): a step that appends to the frontier keeps what the frontier
\* held and appends only URLs that are not in visited at that moment; a URL
\* that waits in the frontier may be appended again, and every URL that was
\* dequeued is in visited.
C11_EnqueueChecksVisited ==
    /\ [][(q' # q /\ Len(q') >= Len(q)) =>
            /\ IsPrefix(q, q')
            /\ \A i \in (Len(q) + 1)..Len(q') : q'[i] \notin visited]_vars
    /\ [][Len(q') < Len(q) => (q' = Tail(q) /\ Head(q) \in visited')]_vars

\* the frontier holds a URL twice, after a page whose links were appended
\* while another URL was already visited
C11_Witness ==
    /\ cpc = "loop"
    /\ pages_visited >= 2
    /\ ~NoDuplicates(q)
    /\ \E i \in 1..Len(q) : q[i] \notin visited

\* ------------------------------------------------------------------------
\* The scenario of C12: three pages A, B, C with the links A->B, A->C, B->A,
\* every fetch succeeding, MAX_RECORDS = MAX_PAGES_TO_VISIT = 10, no output
\* CSV before the run. The paths decide which pages are article-like; START_URL
\* and the href of B's link to A are written with or without a trailing slash
\* (the default START_URL ends with one).
\* ------------------------------------------------------------------------
GraphInit ==
    /\ \E pathA \in {"home", "article7"}, pathB \in {"about", "article8"},
          pathC \in {"contact", "article9"}, seedSlash, backSlash, backFrag, cFirst \in BOOLEAN :
         LET toB == Url(Origin, pathB, FALSE, FALSE)
             toC == Url(Origin, pathC, TRUE, FALSE)
             toA == Url(Origin, pathA, backSlash, backFrag)
         IN /\ startUrl = Url(Origin, pathA, seedSlash, FALSE)
            /\ web = [any |-> FALSE,
                      links |-> (pathA :> (IF cFirst THEN <<toC, toB>> ELSE <<toB, toC>>))
                                @@ (pathB :> <<toA>>) @@ (pathC :> <<>>)]
    /\ conf = [MAX_RECORDS |-> 10, MAX_PAGES_TO_VISIT |-> 10]
    /\ outCsv = NoFile
    /\ RunStart

\* every requests_get succeeds: fetch_with_selenium is never called
GraphNext ==
    \/ CDequeue
    \/ CRequestsGet
    \/ CProcess
    \/ CFinish

GraphSpecInit == GraphInit /\ IngestOff /\ SumOff

GraphSpec == GraphSpecInit /\ [][GraphNext]_vars

\* the pages (by path) the run fetched
FetchedPages == { gets[i].path : i \in 1..Len(gets) }

\* ------------------------------------------------------------------------
\* C12 (as claimed): the run over the graph ends having fetched exactly the
\* pages A, B, C, each exactly once, with a record for exactly the fetched
\* URLs that match the article-path heuristic, and with an empty frontier.
\* ------------------------------------------------------------------------
C12_GraphScenario ==
    cpc = "done" =>
        /\ FetchedPages = DOMAIN web.links
        /\ Len(gets) = 3
        /\ Range(outCsv.lines) = { u \in Range(gets) : IsArticlePath(u) }
        /\ NoDuplicates(outCsv.lines)
        /\ q = <<>>

\* the exit condition of the main loop (line 146 negated)
ExitCondition ==
    \/ q = <<>>
    \/ Cardinality(articles) >= conf.MAX_RECORDS
    \/ pages_visited >= conf.MAX_PAGES_TO_VISIT

RunEnded == cpc \in {"done", "crashed", "flush_failed"}

C14_VisitCeiling ==
    /\ [](/\ pages_visited <= conf.MAX_PAGES_TO_VISIT
          /\ Len(gets) <= pages_visited
          /\ Len(sels) <= Len(gets)
          /\ Cardinality(Range(gets) \cup Range(sels)) <= conf.MAX_PAGES_TO_VISIT)
    /\ [][pages_visited' >= pages_visited]_vars

\* the ceiling ended the run: the frontier is not empty and fewer than
\* MAX_RECORDS articles were collected
C14_Witness ==
    /\ cpc = "done"
    /\ pages_visited = conf.MAX_PAGES_TO_VISIT
    /\ Len(gets) = conf.MAX_PAGES_TO_VISIT
    /\ q # <<>>
    /\ Cardinality(articles) < conf.MAX_RECORDS

\* ------------------------------------------------------------------------
\* C15: a URL is in VisitedSet from before its first fetch on: every URL that
\* requests_get or fetch_with_selenium was called with, and the URL whose
\* fetch is about to start or in progress, is in visited, and visited never
\* loses a URL, whatever the outcome of the fetch.
\* ------------------------------------------------------------------------
C15_VisitedBeforeFetch ==
    /\ [](/\ Range(gets) \cup Range(sels) \subseteq visited
          /\ cpc \in {"fetch", "selenium", "process"} => cur \in visited)
    /\ [][visited \subseteq visited']_vars

\* the second tier is fetching a URL that also waits in the frontier
C15_Witness ==
    /\ cpc = "selenium"
    /\ cur \in visited
    /\ cur \in Range(q)

\* ------------------------------------------------------------------------
\* C16 (as claimed): every URL in the frontier and every URL fetched has the
\* host of the start URL; a link with another host or with no host is never
\* enqueued and never fetched.
\* ------------------------------------------------------------------------
C16_SingleDomain ==
    /\ \A i \in 1..Len(q) : q[i].host = startUrl.host
    /\ \A u \in Range(gets) \cup Range(sels) : u.host = startUrl.host

\* the rows of the output CSV and of the buffer (which the final flush has
\* written when the run is done, and which is gone when the run crashed)
AllRows == outCsv.lines \o (IF RunEnded THEN <<>> ELSE scraped_rows)

\* the step hands a record of URL u to the Sink: the buffer gets it, or the
\* buffer with it is flushed, or its flush fails
HandsToSink(u) ==
    \/ scraped_rows' = Append(scraped_rows, u) /\ outCsv' = outCsv
    \/ /\ scraped_rows' = <<>>
       /\ outCsv' = append_csv(outCsv, Append(scraped_rows, u))
    \/ /\ scraped_rows' = Append(scraped_rows, u)
       /\ outCsv' \in PartialWrites(outCsv, scraped_rows')

\* ------------------------------------------------------------------------
\* C17: a step adds a URL to ArticleSet exactly when it hands the record of
\* that URL to the Sink, and only for a URL whose canonical form was not in
\* ArticleSet; the rows of the CSV and the buffer never hold two records of
\* one canonical URL.
\* ------------------------------------------------------------------------
C17_OneRecordPerUrl ==
    /\ [](\A i, j \in 1..Len(AllRows) :
            i # j => rstrip(AllRows[i]) # rstrip(AllRows[j]))
    /\ [][(articles' # articles \/ Len(scraped_rows') > Len(scraped_rows)
                                \/ (cpc = "process" /\ outCsv' # outCsv)) =>
            /\ rstrip(cur) \notin articles
            /\ articles' = articles \cup {rstrip(cur)}
            /\ HandsToSink(cur)]_vars

\* an article page collected under one spelling is fetched again under
\* another spelling of its URL
C17_Witness ==
    /\ cpc = "process"
    /\ IsArticlePath(cur)
    /\ rstrip(cur) \in articles
    /\ \E i \in 1..Len(scraped_rows) :
         scraped_rows[i] # cur /\ rstrip(scraped_rows[i]) = rstrip(cur)

\* the canonical URLs of the rows the output CSV held at the start of the run
FoundUrls == { rstrip(found.lines[i]) : i \in 1..Len(found.lines) }

\* the rows the run has collected: those after the rows found at the start
NewRows == SubSeq(AllRows, Len(found.lines) + 1, Len(AllRows))

ArticleSeq ==
    << "article1", "article2", "article3", "article4", "article5", "article6",
       "article7", "article8", "article9", "article10", "article11", "article12" >>

FlushInit ==
    /\ \E n \in 9..12 :
         web = [any |-> FALSE,
                links |-> [p \in {"home"} \cup {ArticleSeq[i] : i \in 1..n} |->
                             IF p = "home"
                             THEN [i \in 1..n |-> Url(Origin, ArticleSeq[i], FALSE, FALSE)]
                             ELSE << Url(Origin, "home", TRUE, FALSE) >>]]
    /\ startUrl = Url(Origin, "home", FALSE, FALSE)
    /\ \E m \in {10, 12, 100} : conf = [MAX_RECORDS |-> m, MAX_PAGES_TO_VISIT |-> 20]
    /\ outCsv \in {NoFile, File(<< Url(Origin, "article12", TRUE, FALSE) >>)}
    /\ RunStart

FlushSpecInit == FlushInit /\ IngestOff /\ SumOff

\* the fetches succeed; append_csv may fail
FlushNext ==
    \/ GraphNext
    \/ CFinishRaises

FlushSpec == FlushSpecInit /\ [][FlushNext]_vars

\* the position of URL u in the order of the fetches
FetchIndex(u) == CHOOSE i \in 1..Len(gets) : gets[i] = u

\* ------------------------------------------------------------------------
\* C19: the buffer never holds more than 10 records and is flushed as soon as
\* it holds 10; the CSV only grows; when the run ends normally every record
\* collected in the run is in the CSV exactly once, after the rows found at
\* the start and in the order of collection (the order of the fetches).
\* ------------------------------------------------------------------------
C19_BufferFlushed ==
    /\ Len(scraped_rows) <= 10
    /\ cpc = "loop" => Len(scraped_rows) < 10
    /\ IsPrefix(found.lines, outCsv.lines)
    /\ cpc = "done" =>
          /\ outCsv.lines = found.lines \o NewRows
          /\ \A i \in 1..Len(scraped_rows) :
               scraped_rows[i] = NewRows[Len(NewRows) - Len(scraped_rows) + i]
          /\ { rstrip(u) : u \in Range(NewRows) } = articles \ FoundUrls
          /\ Cardinality(articles \ FoundUrls) = Len(NewRows)
          /\ Range(NewRows) \subseteq Range(gets)
          /\ \A i, j \in 1..Len(NewRows) :
               i < j => FetchIndex(NewRows[i]) < FetchIndex(NewRows[j])

\* the buffer was flushed at 10 records and the final flush wrote two more
C19_Witness ==
    /\ cpc = "done"
    /\ Len(NewRows) = 12
    /\ Len(scraped_rows) = 2
    /\ Len(outCsv.lines) = 12

\* ------------------------------------------------------------------------
\* C20 (as claimed): after a flush that failed partway the records that were
\* not written are not lost: they are written by a later flush. A run whose
\* flush failed takes no further step, so this asks that nothing was left
\* unwritten.
\* ------------------------------------------------------------------------
C20_FailedFlushLosesNothing ==
    cpc = "flush_failed" => Range(scraped_rows) \subseteq Range(outCsv.lines)

\* ---------------------------------------------------------------------------
\* C21: between two successive fetch operations of a crawl run DELAY is
\* awaited, however the earlier fetch ended: a URL is about to be fetched only
\* when no fetch went before or time.sleep(DELAY) ran since the last one.
C21_DelayBetweenFetches == cpc = "fetch" => pause # "due"

\* the last element of a sequence is x
EndsWith(s, x) == s # <<>> /\ s[Len(s)] = x

\* fetch_with_selenium was called for the URL being visited
FellBack == EndsWith(sels, cur)

\* C22 (as claimed): requests_get is tried first for every URL, and
\* fetch_with_selenium is invoked for the URL if and only if the lightweight
\* fetch failed (an exception or a status outside 200..299), at most once.
C22_FallbackIffNot2xx ==
    /\ Range(sels) \subseteq Range(gets)
    /\ NoDuplicates(sels)
    /\ cpc \in {"selenium", "browser"} => EndsWith(gets, cur)
    /\ cpc = "process" => (FellBack <=> (answer.raised \/ answer.status \notin 200..299))

\* C22 (amended): requests_get is tried first for every URL, and
\* fetch_with_selenium is invoked for the URL if and only if requests_get
\* returned None (an exception or a status in 400..599), at most once.
C22_FallbackIffNone ==
    /\ Range(sels) \subseteq Range(gets)
    /\ NoDuplicates(sels)
    /\ cpc \in {"selenium", "browser"} =>
         (EndsWith(gets, cur) /\ (answer.raised \/ answer.status \in 400..599))
    /\ cpc = "process" => (FellBack <=> (answer.raised \/ answer.status \in 400..599))

\* a page was served by the fallback and another by requests_get with a 300
C22_Witness ==
    /\ cpc = "process"
    /\ answer.status = 300
    /\ sels # <<>>
    /\ ~FellBack

\* C23: when both fetch tiers fail for a URL the iteration ends without a
\* record, without an enqueued link and without the URL put back: frontier,
\* ArticleSet, Sink buffer and output CSV are unchanged and the loop goes on.
C23_FailedUrlSkipped ==
    [][(cpc \in {"selenium", "browser"} /\ cpc' \notin {"browser", "process"}) =>
          /\ cpc' = "loop"
          /\ q' = q
          /\ articles' = articles
          /\ scraped_rows' = scraped_rows
          /\ outCsv' = outCsv
          /\ cur \in visited']_vars

\* both tiers failed for the last fetched URL (its iteration ended without the
\* delay) and the next URL of the frontier is being visited
C23_Witness ==
    /\ cpc = "fetch"
    /\ pause = "due"
    /\ gets # <<>>
    /\ EndsWith(sels, gets[Len(gets)])
    /\ cur \notin Range(gets)

\* C24: the browser session of fetch_with_selenium is quit on every exit path:
\* none is open outside the fetch and at most one is open at any time.
C24_SessionTornDown ==
    /\ sessions \in {0, 1}
    /\ cpc # "browser" => sessions = 0

\* a session is open for the second fallback fetch of the run, after the
\* first one ended
C24_Witness ==
    /\ cpc = "browser"
    /\ sessions = 1
    /\ Len(sels) >= 2

\* C25: partial extraction never drops a record: after an article-path URL
\* was fetched with content and its iteration ran to the end, a record of the
\* URL is in the Sink buffer or in the output CSV.
C25_NoRecordDropped ==
    (cpc = "loop" /\ pause = "awaited" /\ IsArticlePath(cur)) =>
        \E row \in Range(scraped_rows) \cup Range(outCsv.lines) : rstrip(row) = rstrip(cur)

\* the file holds a line that is not a JSON document
HasMalformedLine(file) ==
    file.exists /\ \E i \in 1..Len(SplitLines(file.lines)) : Malformed(SplitLines(file.lines)[i])

\* C26: a malformed JSON line in the DurableRecordLog does not stop
\* reconciliation: a reconciliation run that found such a line in the log does
\* not terminate on it.
C26_MalformedLineSkipped ==
    (pc = "r_done" /\ HasMalformedLine(pre.log)) => outcome # "crashed"

\* C27 (as claimed): a store tier whose probe fails with a network or timeout
\* error is attempted again before the run escalates: the first failed attempt
\* on an unreachable tier does not leave the tier.
C27_RetriedBeforeEscalation ==
    [][\A t \in Tiers :
          (/\ pc \in {"s_primary", "r_primary", "r_local"}
           /\ t \notin tried
           /\ t \in tried'
           /\ reach[t] = "down") => pc' = pc]_vars

\* C27 (amended): a store tier is attempted once in a run: when the run stands
\* at a tier, the tier was not attempted before in this run, and after the
\* attempt the run has left the tier.
C27_OneAttemptPerTier ==
    /\ pc \in {"s_primary", "r_primary"} => "primary" \notin tried
    /\ pc = "r_local" => "local" \notin tried
    /\ pc = "s_except" => tried = {"primary"}

\* the primary tier could not be reached and the reconciliation run went on to
\* the local tier
C27_Witness ==
    /\ pc = "r_local"
    /\ "primary" \in tried
    /\ reach["primary"] = "down"
    /\ primary = pre.primary

\* a run of store_to_db.main / of import_fallback.main is under way or over
InIngestRun == pc \in {"s_primary", "s_except", "s_done"}

InReconRun == pc \in {"r_primary", "r_local", "r_done"}

KeyRows == << RecN, RecM, RecA >>

KeyInit == IngestInitWith({KeyRows}, Reaches) /\ CrawlOff /\ SumOff

KeySpec == KeyInit /\ [][Next]_vars

\* every record of rs has its document in docs, under its URL or, without URL,
\* under its title
AllHeld(docs, rs) == \A i \in 1..Len(rs) : Holds(docs, rs[i], rs)

\* C29: upserts are keyed by URL, with the title as the key when the URL is
\* absent: after upsert_to_mongo returned, and after try_import ran against a
\* tier that is up, each of the two records without URL has its own document,
\* and so has the record with a URL.
C29_KeyedByUrlOrTitle ==
    /\ (pc = "s_done" /\ outcome = "stored") => AllHeld(primary, rows)
    /\ \A t \in Tiers :
         (InReconRun /\ t \in tried /\ reach[t] = "up") => AllHeld(Store(t), rows)

\* the number of batches try_import cuts n records into
BatchCount(n) == (n + BATCH_SIZE - 1) \div BATCH_SIZE

\* C30: try_import cuts the records of the log into consecutive batches of at
\* most BATCH_SIZE: the i-th bulk write of a tier carries the records
\* (i-1)*BATCH_SIZE+1 .. i*BATCH_SIZE of the log (every record in one batch, in
\* log order), ceil(n / BATCH_SIZE) bulk writes are issued when none fails,
\* and a failed bulk write is the last one of its tier.
C30_ConsecutiveBatches ==
    \A t \in Tiers :
        LET s == sent[t]
        IN /\ \A i \in 1..Len(s) :
                /\ s[i].ops = SubSeq(rows, (i - 1) * BATCH_SIZE + 1,
                                     Min(i * BATCH_SIZE, Len(rows)))
                /\ Len(s[i].ops) \in 1..BATCH_SIZE
                /\ i < Len(s) => s[i].ok
           /\ Len(s) <= BatchCount(Len(rows))
           /\ (s # <<>> /\ \A i \in 1..Len(s) : s[i].ok) => Len(s) = BatchCount(Len(rows))

\* the primary tier failed the second bulk write of the five-record log, and
\* the local tier then took three bulk writes
C30_Witness ==
    /\ Len(sent["primary"]) = 2
    /\ ~sent["primary"][2].ok
    /\ Len(sent["local"]) = 3
    /\ sent["local"][3].ok
    /\ Len(sent["local"][3].ops) = 1

\* the content of tier t when the run started
PreStore(t) == IF t = "primary" THEN pre.primary ELSE pre.local

\* C31: order independence of a batch: after a successful import the store
\* content is the one every execution order of the unordered bulk writes
\* gives: each successful outcome of try_import over the log, from the content
\* the tier had, equals the content the tier has.
C31_OrderIndependent ==
    \A t \in Tiers :
        ReconSucceeded(t) =>
            \A o \in try_import(PreStore(t), rows, FALSE, 0) : o.ok => o.docs = Store(t)

\* ---------------------------------------------------------------------------
\* C32: dequeuing a frontier entry that is already in VisitedSet only removes
\* the entry: VisitedSet, ArticleSet, pages_visited, Sink buffer and output
\* CSV are unchanged, nothing is fetched and no delay is awaited.
C32_SkipIsNoOp ==
    [][(cpc = "loop" /\ q # <<>> /\ q' # q /\ Head(q) \in visited) =>
          /\ q' = Tail(q)
          /\ cpc' = "loop"
          /\ UNCHANGED <<visited, articles, pages_visited, scraped_rows, outCsv,
                         gets, sels, sessions, pause, cur>>]_vars

\* the loop is about to dequeue a visited entry, with a record in the buffer
\* and a failed fetch behind it
C32_Witness ==
    /\ cpc = "loop"
    /\ LoopCond
    /\ Head(q) \in visited
    /\ scraped_rows # <<>>
    /\ pause = "due"

\* C33: every URL in VisitedSet is canonical (no fragment, no trailing
\* slash), the start URL included, and two URLs that differ only by a
\* trailing slash or a fragment are never both fetched in one crawl run.
C33_VisitedCanonical ==
    /\ \A u \in visited : ~u.slash /\ ~u.frag
    /\ \A i, j \in 1..Len(gets) :
         (gets[i].host = gets[j].host /\ gets[i].path = gets[j].path) => i = j

\* ---------------------------------------------------------------------------
\* Crawl runs over link graphs of five pages, every fetch succeeding, with
\* limits the runs do not reach.
BfsLinks ==
    LET U(p) == Url(Origin, p, FALSE, FALSE)
        S(p) == Url(Origin, p, TRUE, FALSE)
        F(p) == Url(Origin, p, FALSE, TRUE)
    IN [home     : { << U("about"), U("contact") >>, << S("contact"), F("about") >>,
                     << U("about"), Url("other", "about", FALSE, FALSE) >> },
        about    : { << U("article7") >>, << S("home"), U("article7") >>, <<>> },
        contact  : { << U("article7"), U("article8") >>, << U("article8") >>, << U("about") >> },
        article7 : { << U("home") >>, << U("article8") >>, <<>> },
        article8 : { << S("home") >>, << U("about"), U("article7") >> }]

BfsInit ==
    /\ \E links \in BfsLinks : web = [any |-> FALSE, links |-> links]
    /\ \E seedSlash \in BOOLEAN : startUrl = Url(Origin, "home", seedSlash, FALSE)
    /\ conf = [MAX_RECORDS |-> 10, MAX_PAGES_TO_VISIT |-> 10]
    /\ outCsv = NoFile
    /\ RunStart

BfsSpecInit == BfsInit /\ IngestOff /\ SumOff

BfsSpec == BfsSpecInit /\ [][GraphNext]_vars

\* the URLs a fetched page of u sends to the frontier (lines 169-174 without
\* the visited check)
LinkedFrom(u) ==
    { rstrip(l) : l \in { x \in Range(extract_links(web.links[u.path])) :
                             is_internal(x, startUrl.host) } }

RECURSIVE Within(_)
\* the URLs at link distance at most k from the start URL
Within(k) ==
    IF k = 0 THEN { startUrl }
    ELSE Within(k - 1) \cup UNION { LinkedFrom(u) : u \in Within(k - 1) }

MaxDistance == 6

\* the link distance of u from the start URL
Distance(u) == CHOOSE k \in 0..MaxDistance : u \in Within(k) /\ (k > 0 => u \notin Within(k - 1))

\* C34: the crawl visits pages in breadth-first order: with every fetch
\* succeeding, the sequence of fetched URLs is non-decreasing in link distance
\* from the start URL.
C34_BreadthFirst ==
    \A i, j \in 1..Len(gets) : i < j => Distance(gets[i]) <= Distance(gets[j])

\* a run fetched pages at the distances 0, 1, 2 and 3
C34_Witness ==
    /\ cpc = "done"
    /\ { Distance(gets[i]) : i \in 1..Len(gets) } = 0..3
    /\ Len(gets) >= 5

\* ---------------------------------------------------------------------------
\* The summarizer: summarizer.main over the rows of the input CSV, with
\* call_openai for every row.

\* the values SUM_MAX_RETRIES and SUM_BACKOFF_INITIAL are configured with
RetriesUniverse == 0..3

BackoffUniverse == {-1, 1, 2}

MaxRows == 3

\* what one call of client.chat.completions.create ends with: a response
\* with content, a response whose content is None (the .strip() of line 75
\* raises AttributeError), an error of the classes of line 76, another
\* exception
ApiOutcomes == {"content", "nocontent", "apierror", "other"}

\* the values call_openai returns; NoneValue when the function body ends
\* without a return statement
SummaryText == "text"

EmptyString == ""

NoneValue == "None"

RECURSIVE Pow2(_)
Pow2(n) == IF n = 0 THEN 1 ELSE 2 * Pow2(n - 1)

\* line 80: sleep = backoff * (2 ** (attempt - 1))
BackoffWait(backoff, k) == backoff * Pow2(k - 1)

\* summarizer.main lines 88-105 with no output CSV: every row is to be
\* summarized
SumInit ==
    /\ sconf \in [retries : RetriesUniverse, backoff : BackoffUniverse]
    /\ total \in 1..MaxRows
    /\ summaries = <<>>
    /\ spc = "loop"
    /\ attempt = 0
    /\ calls = 0
    /\ waits = <<>>

\* lines 113-114: the value call_openai returned is stored and the loop goes on
Returned(value) ==
    /\ summaries' = Append(summaries, value)
    /\ spc' = "loop"
    /\ attempt' = 0

\* lines 107-112 and 65-67: the next row; call_openai starts its loop over
\* range(1, retries + 1), and with an empty range the body ends without a
\* return statement
MCall ==
    /\ UNCHANGED <<ingestVars, crawlVars>>
    /\ spc = "loop"
    /\ Len(summaries) < total
    /\ calls' = 0
    /\ waits' = <<>>
    /\ IF sconf.retries < 1
       THEN Returned(NoneValue)
       ELSE spc' = "call" /\ attempt' = 1 /\ summaries' = summaries
    /\ UNCHANGED <<sconf, total>>

\* lines 68-85: one attempt
MAttempt ==
    /\ UNCHANGED <<ingestVars, crawlVars>>
    /\ spc = "call"
    /\ calls' = calls + 1
    /\ \E api \in ApiOutcomes :
         CASE api = "content" -> Returned(SummaryText) /\ waits' = waits
           [] api \in {"nocontent", "other"} -> Returned(EmptyString) /\ waits' = waits
           [] api = "apierror" ->
                IF attempt = sconf.retries
                THEN Returned(EmptyString) /\ waits' = waits
                ELSE LET sleep == BackoffWait(sconf.backoff, attempt)
                     IN IF sleep < 0
                        THEN \* time.sleep raises ValueError inside the handler
                             /\ spc' = "raised"
                             /\ UNCHANGED <<summaries, attempt, waits>>
                        ELSE /\ waits' = Append(waits, sleep)
                             /\ attempt' = attempt + 1
                             /\ UNCHANGED <<summaries, spc>>
    /\ UNCHANGED <<sconf, total>>

\* lines 119-120: every row was handled
MFinish ==
    /\ UNCHANGED <<ingestVars, crawlVars>>
    /\ spc = "loop"
    /\ Len(summaries) = total
    /\ spc' = "done"
    /\ UNCHANGED <<sconf, total, summaries, attempt, calls, waits>>

SumNext ==
    \/ MCall
    \/ MAttempt
    \/ MFinish

SumSpecInit == SumInit /\ IngestOff /\ CrawlOff

SumSpec == SumSpecInit /\ [][SumNext]_vars

\* C35: call_openai makes at most retries API attempts for one record, waits
\* INITIAL_BACKOFF * 2^(k-1) after a retryable error on attempt k < retries,
\* returns a string (the empty string on failure) and never raises, so the
\* rows after a failed record are still summarized.
C35_CallOpenaiBounded ==
    /\ calls <= sconf.retries
    /\ Len(waits) <= calls
    /\ \A k \in 1..Len(waits) : waits[k] = BackoffWait(sconf.backoff, k)
    /\ \A i \in 1..Len(summaries) : summaries[i] \in {SummaryText, EmptyString}
    /\ spc # "raised"

====
